---- MODULE Spec2Model ----
(***************************************************************************)
(* Model of the LangGraph research workflow of src/agent_graph.py.         *)
(*                                                                         *)
(* build_workflow() registers three nodes and four UNCONDITIONAL edges     *)
(* (Supervisor->Researcher, Supervisor->Executor, Researcher->Supervisor,  *)
(* Executor->Supervisor); it registers no conditional edge and no edge to  *)
(* END.  The compiled graph therefore runs in supersteps: every node that  *)
(* has an incoming edge from a node of the previous superstep runs, all    *)
(* nodes of one superstep read the same snapshot of the state, and their   *)
(* returned dictionaries are applied to the state together when the        *)
(* superstep ends.  AgentState declares no reducer, so a key written by    *)
(* two nodes of one superstep is rejected (InvalidUpdateError).  The       *)
(* "next" key the nodes return is an ordinary state key: nothing in        *)
(* build_workflow reads it.                                                *)
(***************************************************************************)
EXTENDS Integers, Sequences, FiniteSets, TLC

VARIABLES state, memFile, notepad, step, todo, writes, raised, outcome,
          resCalls, execCalls, log, allMore, noneMore, sink, execIn, resIn

vars == <<state, memFile, notepad, step, todo, writes, raised, outcome,
          resCalls, execCalls, log, allMore, noneMore, sink, execIn, resIn>>

(* ------------------------------ bounds -------------------------------- *)
MaxIter == 3
MaxLines == 2
MaxNotes == 2
MaxOps == 3

(* ------------------------- program constants -------------------------- *)
DefaultMaxIterations == 3
RecursionLimit == 25

(* ------------------------- dictionaries ------------------------------- *)
EmptyDict == [k \in {} |-> TRUE]

Get(d, k, default) == IF k \in DOMAIN d THEN d[k] ELSE default

Update(d, u) ==
  [k \in (DOMAIN d) \cup (DOMAIN u) |-> IF k \in DOMAIN u THEN u[k] ELSE d[k]]

(* --------------------- memory persistence helpers --------------------- *)
\* load_memory with the existence test inverted
load_memoryInverted(f) == IF f.status = "ok" THEN EmptyDict ELSE f.data

\* the persisted memory file: absent, unreadable, or holding a mapping
load_memory(f) == IF f.status = "ok" THEN f.data ELSE EmptyDict

save_memory(mem) == [status |-> "ok", data |-> mem]

MemoryFiles ==
  { [status |-> "absent", data |-> EmptyDict],
    [status |-> "corrupt", data |-> EmptyDict],
    [status |-> "ok", data |-> EmptyDict],
    [status |-> "ok", data |-> [last_query |-> "old", topic |-> "kept"]] }

(* ------------------- the Researcher's LLM answer ---------------------- *)
\* a line of the answer after strip(): its head (the text before any
\* colon), whether it has a colon, and the text after the first colon
Lines ==
  { [head |-> "- fact", colon |-> FALSE, val |-> ""],
    [head |-> "NEEDS_MORE", colon |-> TRUE, val |-> "true"],
    [head |-> "NEEDS_MORE", colon |-> TRUE, val |-> "false"],
    [head |-> "needs_more", colon |-> TRUE, val |-> "Yes"] }

RECURSIVE SeqsUpTo(_, _)
SeqsUpTo(S, n) ==
  IF n = 0 THEN { <<>> }
  ELSE LET shorter == SeqsUpTo(S, n - 1)
       IN shorter \cup { Append(s, x) : s \in { t \in shorter : Len(t) = n - 1 }, x \in S }

ResearchAnswers == SeqsUpTo(Lines, MaxLines)

Upper(t) == IF t = "needs_more" THEN "NEEDS_MORE" ELSE t

Lower(t) ==
  CASE t = "Yes" -> "yes"
    [] t = "NEEDS_MORE" -> "needs_more"
    [] OTHER -> t

\* l.startswith("NEEDS_MORE"), case sensitive
StartsWithFlag(l) == l.head = "NEEDS_MORE"

\* l.upper().startswith("NEEDS_MORE")
UpperStartsWithFlag(l) == Upper(l.head) = "NEEDS_MORE"

\* l.split(":", 1)[-1].strip(): the text after the first colon, the whole
\* line when there is none
SplitLast(l) == IF l.colon THEN l.val ELSE l.head

TruthyWords == {"true", "1", "yes"}

\* notes = [l for l in lines if not l.startswith("NEEDS_MORE")]
NotesOf(ls) ==
  LET F[i \in 0..Len(ls)] ==
        IF i = 0 THEN <<>>
        ELSE IF ~StartsWithFlag(ls[i]) THEN Append(F[i - 1], ls[i]) ELSE F[i - 1]
  IN F[Len(ls)]

\* the loop over lines: the last matching line decides, default False
NeedsMoreFlag(ls) ==
  LET F[i \in 0..Len(ls)] ==
        IF i = 0 THEN FALSE
        ELSE IF UpperStartsWithFlag(ls[i])
             THEN Lower(SplitLast(ls[i])) \in TruthyWords
             ELSE F[i - 1]
  IN F[Len(ls)]

(* ----------------------- the Executor's LLM answer -------------------- *)
\* what the chat completion of executor_node gives: the call fails, or it
\* returns text that is no JSON, a JSON array, or a JSON object
ExecAnswers ==
  { [kind |-> "fail", obj |-> EmptyDict],
    [kind |-> "text", obj |-> EmptyDict],
    [kind |-> "array", obj |-> EmptyDict],
    [kind |-> "object", obj |-> EmptyDict],
    [kind |-> "object", obj |-> [final_note |-> "summary", needs_more |-> TRUE]],
    [kind |-> "object", obj |-> [final_note |-> "summary", needs_more |-> FALSE]] }

FallbackRaw ==
  [kind |-> "object",
   obj |-> [final_note |-> "Executor fallback summary.", needs_more |-> FALSE]]

\* try: raw = completion...content  except Exception: raw = <fallback JSON>
RawOf(ans) == IF ans.kind = "fail" THEN FallbackRaw ELSE ans

\* try: parsed = json.loads(raw)  except Exception: parsed = {final_note: raw, ...}
\* (a JSON array parses, and is handed on as it is)
ParsedOf(raw) ==
  IF raw.kind = "text"
  THEN [kind |-> "object", obj |-> [final_note |-> "raw text", needs_more |-> FALSE]]
  ELSE raw

\* parsed.get(...) exists on a dict only: AttributeError on anything else
GetRaises(parsed) == parsed.kind # "object"

(* ------------------------------ nodes --------------------------------- *)
Nodes == {"Supervisor", "Researcher", "Executor"}

\* "needs_more" in executor_output.lower()
ContainsNeedsMore(t) == t \in {"needs_more", "NEEDS_MORE"}

\* supervisor_node: the setdefault calls change the node's own copy of the
\* state only; the returned dictionary is all the graph sees
supervisor_node(s) ==
  IF Get(s, "user_input", "") = "" THEN [next |-> "None"]
  ELSE IF Len(Get(s, "research_notes", <<>>)) = 0 THEN [next |-> "Researcher"]
  ELSE IF ContainsNeedsMore(Get(s, "executor_output", "")) THEN [next |-> "Researcher"]
  ELSE [next |-> "Executor"]

\* researcher_node returning the new block alone instead of the old notes
\* plus the block
researcher_nodeReplacing(s, ans) ==
  [research_notes |-> <<NotesOf(ans)>>,
   iterations |-> Get(s, "iterations", 0) + 1,
   needs_more |-> NeedsMoreFlag(ans),
   next |-> "Executor"]

researcher_node(s, ans) ==
  [research_notes |-> Append(Get(s, "research_notes", <<>>), NotesOf(ans)),
   iterations |-> Get(s, "iterations", 0) + 1,
   needs_more |-> NeedsMoreFlag(ans),
   next |-> "Executor"]

\* memory_update recording the count of the step to come
memory_updateOffByOne(s, final_note) ==
  [last_query |-> Get(s, "user_input", "None"),
   last_notes |-> Get(s, "research_notes", <<>>),
   iterations |-> Get(s, "iterations", 0) + 1,
   final_note |-> final_note]

\* the memory_update dictionary of executor_node
memory_update(s, final_note) ==
  [last_query |-> Get(s, "user_input", "None"),
   last_notes |-> Get(s, "research_notes", <<>>),
   iterations |-> Get(s, "iterations", 0),
   final_note |-> final_note]

\* the cap compared with > instead of >=
CapReachedStrict(s) == Get(s, "iterations", 0) > Get(s, "max_iterations", DefaultMaxIterations)

\* "Stop if reached max iterations"
CapReached(s) == Get(s, "iterations", 0) >= Get(s, "max_iterations", DefaultMaxIterations)

\* the dictionary executor_node returns
executor_node(s, parsed, memory) ==
  LET final_note == Get(parsed.obj, "final_note", "")
      asked == Get(parsed.obj, "needs_more", FALSE)
      needs_more == IF CapReached(s) THEN FALSE ELSE asked
  IN [final_note |-> final_note,
      memory |-> memory,
      needs_more |-> needs_more,
      next |-> IF needs_more THEN "Researcher" ELSE "None"]

(* --------------------------- build_workflow --------------------------- *)
EntryPoint == "Supervisor"

Edges ==
  { <<"Supervisor", "Researcher">>, <<"Supervisor", "Executor">>,
    <<"Researcher", "Supervisor">>, <<"Executor", "Supervisor">> }

Successors(done) == { m \in Nodes : \E n \in done : <<n, m>> \in Edges }

NoWrites == [n \in {} |-> EmptyDict]

\* keys returned by more than one node of the superstep
ConflictKeys(w) ==
  { k \in UNION { DOMAIN w[n] : n \in DOMAIN w } :
      \E n1, n2 \in DOMAIN w : n1 # n2 /\ k \in DOMAIN w[n1] /\ k \in DOMAIN w[n2] }

MergedWrites(w) ==
  [k \in UNION { DOMAIN w[n] : n \in DOMAIN w } |->
     w[CHOOSE n \in DOMAIN w : k \in DOMAIN w[n]][k]]

(* ------------------------------- Init --------------------------------- *)
UserInputs == {"", "question"}

\* the initial_state of the run example, for any question, any cap and any
\* content of the memory file
InitialState(q, n, save, f) ==
  [user_input |-> q,
   iterations |-> 0,
   max_iterations |-> n,
   research_notes |-> <<>>,
   memory |-> load_memory(f),
   save_to_notepad |-> save]

\* researcher_node has had no answer from the LLM yet
NoAnswer == [given |-> FALSE, lines |-> <<>>]

NoExecIn == [kind |-> "none", appendOK |-> TRUE, launchOK |-> TRUE]

Init ==
  /\ memFile \in MemoryFiles
  /\ \E q \in UserInputs, n \in 0..MaxIter, save \in BOOLEAN :
       state = InitialState(q, n, save, memFile)
  /\ notepad = <<>>
  /\ step = 1
  /\ todo = {EntryPoint}
  /\ writes = NoWrites
  /\ raised = {}
  /\ outcome = "running"
  /\ resCalls = 0
  /\ execCalls = 0
  /\ log = <<>>
  /\ allMore = TRUE
  /\ noneMore = TRUE
  /\ sink = "unused"
  /\ execIn = NoExecIn
  /\ resIn = NoAnswer

(* ------------------------------ actions ------------------------------- *)
Finish(n, w) ==
  /\ todo' = todo \ {n}
  /\ writes' = [m \in DOMAIN writes \cup {n} |-> IF m = n THEN w ELSE writes[m]]
  /\ log' = Append(log, [node |-> n, ok |-> TRUE])

Raise(n, exc) ==
  /\ todo' = todo \ {n}
  /\ raised' = raised \cup {exc}
  /\ log' = Append(log, [node |-> n, ok |-> FALSE])
  /\ UNCHANGED writes

Supervisor ==
  /\ outcome = "running"
  /\ "Supervisor" \in todo
  /\ Finish("Supervisor", supervisor_node(state))
  /\ UNCHANGED <<state, memFile, notepad, step, raised, outcome, resCalls,
                 execCalls, allMore, noneMore, sink, execIn, resIn>>

\* researcher_node with an answer of the LLM
Researcher ==
  /\ outcome = "running"
  /\ "Researcher" \in todo
  /\ \E ans \in ResearchAnswers :
       /\ Finish("Researcher", researcher_node(state, ans))
       /\ resIn' = [given |-> TRUE, lines |-> ans]
       /\ allMore' = (allMore /\ NeedsMoreFlag(ans))
       /\ noneMore' = (noneMore /\ ~NeedsMoreFlag(ans))
  /\ resCalls' = resCalls + 1
  /\ UNCHANGED <<state, memFile, notepad, step, raised, outcome, execCalls,
                 sink, execIn>>

\* researcher_node swallowing the failure of the LLM call: it returns an empty
\* block and the incremented counter instead of raising
ResearcherFailsSwallowed ==
  /\ outcome = "running"
  /\ "Researcher" \in todo
  /\ todo' = todo \ {"Researcher"}
  /\ writes' = [m \in DOMAIN writes \cup {"Researcher"} |->
                  IF m = "Researcher" THEN researcher_node(state, <<>>) ELSE writes[m]]
  /\ log' = Append(log, [node |-> "Researcher", ok |-> FALSE])
  /\ resCalls' = resCalls + 1
  /\ UNCHANGED <<state, memFile, notepad, step, raised, outcome, execCalls, allMore,
                 noneMore, sink, execIn, resIn>>

\* researcher_node when groq_research_query raises: nothing is returned
ResearcherFails ==
  /\ outcome = "running"
  /\ "Researcher" \in todo
  /\ Raise("Researcher", "RuntimeError")
  /\ resCalls' = resCalls + 1
  /\ UNCHANGED <<state, memFile, notepad, step, outcome, execCalls, allMore,
                 noneMore, sink, execIn, resIn>>

\* whether the notes sink works: the sink is used only if save_to_notepad
SinkOutcomes(s) == IF Get(s, "save_to_notepad", FALSE) THEN BOOLEAN ELSE {TRUE}

\* executor_node, in the order of its statements
Executor ==
  /\ outcome = "running"
  /\ "Executor" \in todo
  /\ execCalls' = execCalls + 1
  /\ \E ans \in ExecAnswers, appendOK \in SinkOutcomes(state), launchOK \in SinkOutcomes(state) :
       LET parsed == ParsedOf(RawOf(ans))
           save_flag == Get(state, "save_to_notepad", FALSE)
           final_note == Get(parsed.obj, "final_note", "")
           memory == Update(Get(state, "memory", EmptyDict),
                            memory_update(state, final_note))
       IN /\ execIn' = [kind |-> ans.kind, appendOK |-> appendOK, launchOK |-> launchOK]
          /\ IF GetRaises(parsed)
             THEN /\ Raise("Executor", "AttributeError")
                  /\ UNCHANGED <<state, memFile, notepad, sink, allMore, noneMore>>
             ELSE IF save_flag /\ ~appendOK
             THEN /\ Raise("Executor", "OSError")
                  /\ sink' = "appendFailed"
                  /\ UNCHANGED <<state, memFile, notepad, allMore, noneMore>>
             ELSE /\ notepad' = IF save_flag THEN Append(notepad, final_note) ELSE notepad
                  /\ sink' = IF ~save_flag THEN "unused"
                             ELSE IF launchOK THEN "opened" ELSE "launchFailed"
                  \* memory.update(...) changes the dictionary held by the state
                  /\ state' = IF "memory" \in DOMAIN state
                              THEN [state EXCEPT !["memory"] = memory]
                              ELSE state
                  /\ memFile' = save_memory(memory)
                  /\ allMore' = (allMore /\ Get(parsed.obj, "needs_more", FALSE))
                  /\ noneMore' = (noneMore /\ ~Get(parsed.obj, "needs_more", FALSE))
                  /\ Finish("Executor", executor_node(state, parsed, memory))
                  /\ UNCHANGED raised
  /\ UNCHANGED <<step, outcome, resCalls, resIn>>

\* the end of a superstep in which no node raised: the returned dictionaries
\* are applied, and the nodes the edges lead to are scheduled
EndSuperstep ==
  /\ outcome = "running"
  /\ raised = {}
  /\ todo = {}
  /\ IF ConflictKeys(writes) # {}
     THEN /\ outcome' = "InvalidUpdateError"
          /\ UNCHANGED <<state, step, todo, writes>>
     ELSE /\ state' = Update(state, MergedWrites(writes))
          /\ writes' = NoWrites
          /\ IF Successors(DOMAIN writes) = {}
             THEN /\ outcome' = "END"
                  /\ UNCHANGED <<step, todo>>
             ELSE IF step >= RecursionLimit
             THEN /\ outcome' = "GraphRecursionError"
                  /\ UNCHANGED <<step, todo>>
             ELSE /\ step' = step + 1
                  /\ todo' = Successors(DOMAIN writes)
                  /\ UNCHANGED outcome
  /\ UNCHANGED <<memFile, notepad, raised, resCalls, execCalls, log, allMore,
                 noneMore, sink, execIn, resIn>>

\* a node raised: invoke() raises the exception to the caller; a node of the
\* same superstep that was already running may still finish (or raise too)
\* before it does
Abort ==
  /\ outcome = "running"
  /\ \E exc \in raised : outcome' = exc
  /\ UNCHANGED <<state, memFile, notepad, step, todo, writes, raised, resCalls,
                 execCalls, log, allMore, noneMore, sink, execIn, resIn>>

Next == Supervisor \/ Researcher \/ ResearcherFails \/ Executor \/ EndSuperstep \/ Abort

Spec == Init /\ [][Next]_vars

\* the run goes on while it can: every step of invoke() is taken
FairSpec == Spec /\ WF_vars(Next)

Halted == outcome # "running"

(* ------------- the workflow invoked on any AgentState record ---------- *)
\* the i-th block of notes a record may already hold: i fact lines
OldBlock(i) == [j \in 1..i |-> [head |-> "- fact", colon |-> FALSE, val |-> ""]]

OldNotes(k) == [i \in 1..k |-> OldBlock(i)]

\* app.invoke(record) for a record of the AgentState schema: the keys of
\* the run example with any values, with or without needs_more
AnyState(q, it, n, k, f) ==
  [user_input |-> q,
   iterations |-> it,
   max_iterations |-> n,
   research_notes |-> OldNotes(k),
   memory |-> load_memory(f),
   save_to_notepad |-> FALSE]

InitAny ==
  /\ memFile = [status |-> "ok", data |-> [last_query |-> "old", topic |-> "kept"]]
  /\ \E q \in UserInputs, it \in 0..MaxIter, n \in 0..MaxIter, k \in 0..MaxNotes :
       \/ state = AnyState(q, it, n, k, memFile)
       \/ \E nm \in BOOLEAN :
            state = Update(AnyState(q, it, n, k, memFile), [needs_more |-> nm])
  /\ notepad = <<>>
  /\ step = 1
  /\ todo = {EntryPoint}
  /\ writes = NoWrites
  /\ raised = {}
  /\ outcome = "running"
  /\ resCalls = 0
  /\ execCalls = 0
  /\ log = <<>>
  /\ allMore = TRUE
  /\ noneMore = TRUE
  /\ sink = "unused"
  /\ execIn = NoExecIn
  /\ resIn = NoAnswer

SpecAny == InitAny /\ [][Next]_vars

(* ------------------- the memory store on its own --------------------- *)
\* mappings a caller may hand to save_memory
StoreMappings ==
  { EmptyDict,
    [last_query |-> "old", topic |-> "kept"],
    [last_query |-> "question", last_notes |-> <<>>, iterations |-> 0,
     final_note |-> "summary"] }

InitStore ==
  /\ memFile \in MemoryFiles
  /\ state = InitialState("question", 1, FALSE, memFile)
  /\ notepad = <<>>
  /\ step = 1
  /\ todo = {}
  /\ writes = NoWrites
  /\ raised = {}
  /\ outcome = "running"
  /\ resCalls = 0
  /\ execCalls = 0
  /\ log = <<>>
  /\ allMore = TRUE
  /\ noneMore = TRUE
  /\ sink = "unused"
  /\ execIn = NoExecIn
  /\ resIn = NoAnswer

StoreOp(name) ==
  /\ Len(log) < MaxOps
  /\ log' = Append(log, [node |-> name, ok |-> TRUE, before |-> memFile, after |-> memFile'])
  /\ UNCHANGED <<notepad, step, todo, writes, raised, outcome, resCalls, execCalls,
                 allMore, noneMore, sink, execIn, resIn>>

\* memory = load_memory()
StoreLoad ==
  /\ state' = [state EXCEPT !["memory"] = load_memory(memFile)]
  /\ memFile' = memFile
  /\ StoreOp("load_memory")

\* save_memory(mem)
StoreSave ==
  /\ \E mem \in StoreMappings : memFile' = save_memory(mem)
  /\ UNCHANGED state
  /\ StoreOp("save_memory")

\* save_memory(load_memory()), nothing touching the file in between
StoreRoundTrip ==
  /\ memFile' = save_memory(load_memory(memFile))
  /\ UNCHANGED state
  /\ StoreOp("round trip")

NextStore == StoreLoad \/ StoreSave \/ StoreRoundTrip

SpecStore == InitStore /\ [][NextStore]_vars

RoundTrips == { i \in DOMAIN log : log[i].node = "round trip" }

(* ------------- the research/execute variant (multiagent_app) ---------- *)
\* multiagent_agents.py does not compile as it stands: the research_data
\* literal ends in `]n    }` (line 15), so importing it raises SyntaxError and
\* run_interactive never starts (ImportFails).  The other actions model the
\* agents and the graph of build_graph as they are written, with that entry
\* read as the third entry of the table.
\*
\* build_graph adds unconditional edges only: START -> supervisor_node ->
\* research_agent, research_agent -> research_agent, research_agent ->
\* execute_agent, execute_agent -> END.  Every node works on its own copy of
\* the state, and the keys the nodes return (message, next, output_file) are
\* no fields of ProjectState, so nothing a node does reaches the graph state.

\* ProjectState(query=query).  ProjectState is a dataclass deriving from dict:
\* the nodes read it with state.get(key, default), and every default they pass
\* equals the default of the field.
ProjectState(q) ==
  [query |-> q,
   research_notes |-> <<>>,
   research_attempts |-> 0,
   ready_to_execute |-> FALSE,
   execution_log |-> <<>>,
   result |-> "",
   final_output |-> ""]

StateKeys == DOMAIN ProjectState("")

ReadyThreshold == 3

\* multiagent_supervisor.supervisor_node
route_supervisor_node(s) ==
  IF Get(s, "ready_to_execute", FALSE)
  THEN [next |-> "execute_agent"]
  ELSE [next |-> "research_agent"]

\* research_data.get(attempt, [f"Extra research round {attempt}"])
research_data(attempt) ==
  CASE attempt = 1 -> <<"Identify problem", "Gather basic info">>
    [] attempt = 2 -> <<"Analyze constraints", "Generate possible actions">>
    [] attempt = 3 -> <<"Validate best strategy", "Prepare execution plan">>
    [] OTHER -> <<"Extra research round">>

\* research_agent: the node's own state after it ran, and what it returns
research_agent(s) ==
  LET attempt == Get(s, "research_attempts", 0) + 1
      ready == attempt >= ReadyThreshold
      local == Update(s, [research_attempts |-> attempt,
                          research_notes |-> Get(s, "research_notes", <<>>) \o research_data(attempt),
                          ready_to_execute |-> ready])
  IN [local |-> local,
      ret |-> IF ready
              THEN [message |-> "Research complete", next |-> "execute_agent"]
              ELSE [message |-> "Continuing research", next |-> "research_agent"]]

\* the status line execute_agent writes to results.txt
status_message(s) ==
  IF Get(s, "research_attempts", 0) >= ReadyThreshold THEN "HIGH" ELSE "LOW"

execute_agent(s) ==
  [local |-> Update(s, [execution_log |-> Append(Get(s, "execution_log", <<>>), "Results written"),
                        result |-> "Execution completed and file saved."]),
   file |-> [status |-> status_message(s),
             attempts |-> Get(s, "research_attempts", 0),
             notes |-> Get(s, "research_notes", <<>>)],
   ret |-> [message |-> "Execution finished", output_file |-> "results.txt"]]

GraphNodes == {"supervisor_node", "research_agent", "execute_agent"}

GraphEdges ==
  { <<"START", "supervisor_node">>, <<"supervisor_node", "research_agent">>,
    <<"research_agent", "research_agent">>, <<"research_agent", "execute_agent">>,
    <<"execute_agent", "END">> }

GraphSuccessors(done) == { m \in GraphNodes : \E n \in done : <<n, m>> \in GraphEdges }

\* the part of the returned dictionaries that names fields of the state
StateWrites(w) ==
  LET all == MergedWrites(w)
  IN [k \in DOMAIN all \cap StateKeys |-> all[k]]

NoAgentRun == [given |-> FALSE, attempts |-> 0, ready |-> FALSE, status |-> ""]

InitGraph ==
  /\ \E q \in UserInputs : state = ProjectState(q)
  /\ memFile = [status |-> "absent", data |-> EmptyDict]
  /\ notepad = <<>>
  /\ step = 0
  /\ todo = {}
  /\ writes = NoWrites
  /\ raised = {}
  /\ outcome = "running"
  /\ resCalls = 0
  /\ execCalls = 0
  /\ log = <<>>
  /\ allMore = TRUE
  /\ noneMore = TRUE
  /\ sink = "unused"
  /\ execIn = NoAgentRun
  /\ resIn = NoAgentRun

\* `from multiagent_agents import ...` as the file stands
ImportFails ==
  /\ outcome = "running"
  /\ step = 0
  /\ outcome' = "SyntaxError"
  /\ UNCHANGED <<state, memFile, notepad, step, todo, writes, raised, resCalls,
                 execCalls, log, allMore, noneMore, sink, execIn, resIn>>

\* graph.invoke(state, ...): START -> supervisor_node
GraphStart ==
  /\ outcome = "running"
  /\ step = 0
  /\ step' = 1
  /\ todo' = GraphSuccessors({"START"})
  /\ UNCHANGED <<state, memFile, notepad, writes, raised, outcome, resCalls,
                 execCalls, log, allMore, noneMore, sink, execIn, resIn>>

AgentReturns(n, ret) ==
  /\ todo' = todo \ {n}
  /\ writes' = [m \in DOMAIN writes \cup {n} |-> IF m = n THEN ret ELSE writes[m]]

RouteSupervisor ==
  /\ outcome = "running"
  /\ "supervisor_node" \in todo
  /\ AgentReturns("supervisor_node", route_supervisor_node(state))
  /\ UNCHANGED <<state, memFile, notepad, step, raised, outcome, resCalls,
                 execCalls, log, allMore, noneMore, sink, execIn, resIn>>

ResearchAgent ==
  /\ outcome = "running"
  /\ "research_agent" \in todo
  /\ LET r == research_agent(state)
     IN /\ AgentReturns("research_agent", r.ret)
        /\ resIn' = [given |-> TRUE,
                     attempts |-> r.local.research_attempts,
                     ready |-> r.local.ready_to_execute,
                     status |-> ""]
  /\ resCalls' = resCalls + 1
  /\ UNCHANGED <<state, memFile, notepad, step, raised, outcome, execCalls, log,
                 allMore, noneMore, sink, execIn>>

ExecuteAgent ==
  /\ outcome = "running"
  /\ "execute_agent" \in todo
  /\ LET r == execute_agent(state)
     IN /\ AgentReturns("execute_agent", r.ret)
        /\ execIn' = [given |-> TRUE,
                      attempts |-> r.file.attempts,
                      ready |-> Get(state, "ready_to_execute", FALSE),
                      status |-> r.file.status]
  /\ execCalls' = execCalls + 1
  /\ UNCHANGED <<state, memFile, notepad, step, raised, outcome, resCalls, log,
                 allMore, noneMore, sink, resIn>>

GraphEndSuperstep ==
  /\ outcome = "running"
  /\ step >= 1
  /\ todo = {}
  /\ state' = Update(state, StateWrites(writes))
  /\ writes' = NoWrites
  /\ IF GraphSuccessors(DOMAIN writes) = {}
     THEN /\ outcome' = "END"
          /\ UNCHANGED <<step, todo>>
     ELSE IF step >= RecursionLimit
     THEN /\ outcome' = "GraphRecursionError"
          /\ UNCHANGED <<step, todo>>
     ELSE /\ step' = step + 1
          /\ todo' = GraphSuccessors(DOMAIN writes)
          /\ UNCHANGED outcome
  /\ UNCHANGED <<memFile, notepad, raised, resCalls, execCalls, log, allMore,
                 noneMore, sink, execIn, resIn>>

NextGraph ==
  ImportFails \/ GraphStart \/ RouteSupervisor \/ ResearchAgent \/ ExecuteAgent
    \/ GraphEndSuperstep

SpecGraph == InitGraph /\ [][NextGraph]_vars

(* ------------------------- derived quantities ------------------------- *)
Count(node, ok) == Cardinality({ i \in DOMAIN log : log[i].node = node /\ log[i].ok = ok })

\* researcher_node invocations that returned
ResearcherDone == Count("Researcher", TRUE)

ResearcherFailed == Count("Researcher", FALSE) > 0

\* the run has ended and no node raised: every LLM call gave an answer
CleanEnd == Halted /\ raised = {}

Cap == state.max_iterations

Returned(n) == n \in DOMAIN writes

(* ------------------------------ claims -------------------------------- *)

\* C1: every run with max_iterations = N >= 1 in which the LLM steps answer
\* reaches the end state of the graph, after at most N researcher_node
\* invocations.
C1_RunReachesEnd ==
  (CleanEnd /\ Cap >= 1) => (outcome = "END" /\ resCalls <= Cap)

\* C2: a run with max_iterations = N >= 1 in which every step signals
\* needs_more = true has invoked researcher_node exactly N times when it ends.
C2_ExactlyNInvocations ==
  (CleanEnd /\ Cap >= 1 /\ allMore) => resCalls = Cap

\* C3: executor_node is invoked exactly once per run and only after the last
\* researcher_node invocation; final_note is unset before it runs and is
\* written by it.
C3_FinalizerOnceAfterLoop ==
  /\ execCalls <= 1
  /\ \A i, j \in DOMAIN log :
       (i < j /\ log[i].node = "Executor") => log[j].node # "Researcher"
  /\ (execCalls = 0) => ("final_note" \notin DOMAIN state)
  /\ CleanEnd => (execCalls = 1 /\ "final_note" \in DOMAIN state)

\* C4: between supersteps and at the end of the run, iterations equals the
\* number of researcher_node invocations completed so far.
C4_IterationsCountInvocations ==
  (DOMAIN writes = {} \/ Halted) => Get(state, "iterations", 0) = ResearcherDone

\* the needs_more the run ends with: the state's, or, where the state holds
\* none, the one executor_node returned
LatestNeedsMore ==
  IF "needs_more" \in DOMAIN state THEN state.needs_more
  ELSE IF Returned("Executor") THEN writes["Executor"].needs_more
  ELSE TRUE

\* C5: when a run ends with the iteration counter at max_iterations (the
\* researcher_node invocations have reached the cap), needs_more is false,
\* whatever the LLM steps asked for.
C5_CapForcesNeedsMoreFalse ==
  (CleanEnd /\ Cap >= 1 /\ ResearcherDone >= Cap) => LatestNeedsMore = FALSE

\* C6: a run with max_iterations >= 1 in which no step signals needs_more
\* performs exactly one researcher_node invocation and ends with
\* needs_more = false in the final record.
C6_NoMoreMeansOneStep ==
  (CleanEnd /\ Cap >= 1 /\ noneMore) =>
    /\ resCalls = 1
    /\ "needs_more" \in DOMAIN state
    /\ state.needs_more = FALSE

C9_FinalizerNeverRaisesOnAnswer ==
  (execCalls > 0 /\ sink # "appendFailed") =>
    /\ "AttributeError" \notin raised
    /\ Returned("Executor")
    /\ writes["Executor"].final_note \in
         {"summary", "", "raw text", "Executor fallback summary."}

\* C10: when save_to_notepad is true and the notes sink fails (the append to
\* research_notepad.txt or the launch of notepad), executor_node still
\* returns and the memory update is persisted.
C10_SinkFailureIsBestEffort ==
  (execCalls > 0 /\ state.save_to_notepad /\ execIn.kind # "array"
     /\ (~execIn.appendOK \/ ~execIn.launchOK)) =>
    /\ "OSError" \notin raised
    /\ Returned("Executor")
    /\ memFile = save_memory(writes["Executor"].memory)

\* C11: whenever research_notes is empty the supervisor routes to
\* researcher_node, whatever user_input, needs_more, iterations and
\* max_iterations are, and in every run researcher_node has run before
\* executor_node does.
C11_FirstStepGoesToProducer ==
  /\ (Returned("Supervisor") /\ Len(Get(state, "research_notes", <<>>)) = 0) =>
       writes["Supervisor"].next = "Researcher"
  /\ \A j \in DOMAIN log :
       (log[j].node = "Executor") =>
         \E i \in 1..(j - 1) : log[i].node = "Researcher" /\ log[i].ok

IsPrefix(a, b) == Len(a) <= Len(b) /\ SubSeq(b, 1, Len(a)) = a

Notes == Get(state, "research_notes", <<>>)

Memory == Get(state, "memory", EmptyDict)

\* C13: only an executor_node invocation changes the record's memory or the
\* persisted memory file, and when executor_node returns, the file holds the
\* record's memory, with last_query = user_input, last_notes =
\* research_notes, iterations = the record's iteration count and final_note =
\* the note it returns.
C13_MemoryUpdatedByFinalizerOnly ==
  [][ /\ (memFile' # memFile \/ Memory' # Memory) => execCalls' = execCalls + 1
      /\ (Returned("Executor")' /\ ~Returned("Executor")) =>
           /\ memFile' = save_memory(Memory')
           /\ memFile'.data.last_query = state'.user_input
           /\ memFile'.data.last_notes = Notes'
           /\ memFile'.data.iterations = Get(state', "iterations", 0)
           /\ memFile'.data.final_note = writes'["Executor"].final_note
    ]_vars

C13_Witness ==
  /\ Returned("Executor")
  /\ Returned("Researcher")
  /\ "topic" \in DOMAIN memFile.data
  /\ memFile.data.last_query = "question"
  /\ memFile.data.final_note = "summary"
  /\ memFile = save_memory(Memory)

MoreWanted(s) ==
  /\ Get(s, "needs_more", FALSE)
  /\ Get(s, "iterations", 0) < Get(s, "max_iterations", DefaultMaxIterations)

\* C15: after an executor_node run, researcher_node runs next if and only if
\* needs_more is true and iterations < max_iterations (so a run does not end
\* on an executor_node return that asks for the Researcher), and the
\* supervisor's decision on a record that already holds notes agrees with
\* that condition.
C15_BackEdgeFollowsNeedsMore ==
  /\ (CleanEnd /\ Returned("Executor")) => writes["Executor"].next # "Researcher"
  /\ (Returned("Supervisor") /\ Len(Notes) > 0 /\ Get(state, "user_input", "") # "") =>
       ((writes["Supervisor"].next = "Researcher") <=> MoreWanted(state))

\* the lines of the answer that start with NEEDS_MORE in any letter case
FlagLines(ls) == { i \in DOMAIN ls : UpperStartsWithFlag(ls[i]) }

LastOf(S) == CHOOSE i \in S : \A j \in S : j <= i

\* C17: needs_more is false when the answer has no NEEDS_MORE line, is true
\* exactly when the last NEEDS_MORE line (in any letter case) carries true, 1
\* or yes, and no line that sets the flag is in the block of notes that
\* researcher_node appends.
C17_FlagParsedAndKeptOutOfNotes ==
  (Returned("Researcher") /\ resIn.given) =>
    LET ls == resIn.lines
        ret == writes["Researcher"]
        block == ret.research_notes[Len(ret.research_notes)]
    IN /\ (FlagLines(ls) = {}) => (ret.needs_more = FALSE)
       /\ (FlagLines(ls) # {}) =>
            (ret.needs_more <=> Lower(ls[LastOf(FlagLines(ls))].val) \in TruthyWords)
       /\ \A j \in DOMAIN block : ~UpperStartsWithFlag(block[j])

\* C16: in the research/execute variant research_agent sets
\* ready_to_execute exactly when research_attempts >= 3, execute_agent runs
\* exactly once per run, in a state where ready_to_execute is true and
\* research_attempts = 3, writes the HIGH status, and the run reaches END.
C16_ExecuteOnceWhenReady ==
  /\ resIn.given => (resIn.ready <=> resIn.attempts >= ReadyThreshold)
  /\ execCalls <= 1
  /\ execIn.given =>
       (execIn.ready /\ execIn.attempts = ReadyThreshold /\ execIn.status = "HIGH")
  /\ Halted => (outcome = "END" /\ execCalls = 1)

====
